---- MODULE Spec2Model ----
(***************************************************************************)
(* Model of robot_apoc_game.py: the turn loop of Game (run_start,          *)
(* run_loop, run_explore_turn, run_quiz_turn, handle_explore, handle_quiz, *)
(* apply_state_update, do_ending) and the State it mutates.                *)
(*                                                                         *)
(* Strings that the code takes apart (choice identifiers, room keys) are   *)
(* sequences of one-character strings, so that startswith("move_") and     *)
(* replace("move_", "") are computed character by character.               *)
(***************************************************************************)
EXTENDS Integers, Sequences, FiniteSets, TLC

VARIABLES
    state,            \* Game.state: the State object (a record of its fields)
    files,            \* lab2_output/save_<id>.json for each slot id: <<>> (no file) or <<snapshot>>
    pc,               \* where the program is blocked (an input(), the generator) or ended
    out,              \* the generator's raw reply of the turn in progress
    turn_data,        \* run_loop's turn_data (the validated reply)
    last_action_id,   \* Game.last_action_id
    last_free_text,   \* Game.last_free_text
    summary,          \* what do_ending wrote to summary_file
    start_type,       \* run_start's start_type
    saveid_to_exist,  \* run_start's saveid_to_exist
    use_save_id,      \* run_start's use_save_id
    quiz_result,      \* run_loop's quiz_result ("none" for None)
    pre,              \* history: the State at the top of the loop iteration in progress
    applied           \* history: number of apply_state_update calls so far

vars == <<state, files, pc, out, turn_data, last_action_id, last_free_text,
          summary, start_type, saveid_to_exist, use_save_id, quiz_result, pre, applied>>

(***************************************************************************)
(* Bounds of the model.                                                    *)
(***************************************************************************)
\* run_loop is followed for this many turns.
MaxTurn == 3
\* The State Update Applier is called this many times in SpecApplier.
MaxCalls == 2

(***************************************************************************)
(* Character strings.                                                      *)
(***************************************************************************)
InSeq(x, s) == \E i \in 1..Len(s) : s[i] = x

StartsWith(s, p) == Len(s) >= Len(p) /\ SubSeq(s, 1, Len(p)) = p

\* str.replace(pat, ""): every non-overlapping occurrence, scanned left to right.
RECURSIVE Remove(_, _)
Remove(s, pat) ==
    IF s = <<>> THEN <<>>
    ELSE IF StartsWith(s, pat) THEN Remove(SubSeq(s, Len(pat) + 1, Len(s)), pat)
    ELSE <<Head(s)>> \o Remove(Tail(s), pat)

MovePrefix == <<"m", "o", "v", "e", "_">>
NoId == <<>>

BunkerEntrance == <<"b","u","n","k","e","r","_","e","n","t","r","a","n","c","e">>
Lab1 == <<"l","a","b","_","1">>
Lab3 == <<"l","a","b","_","3">>
Storage == <<"s","t","o","r","a","g","e">>
MoveBay == MovePrefix \o <<"b","a","y">>
Inspect == <<"i","n","s","p","e","c","t">>
FreeAction == <<"f","r","e","e","_","a","c","t","i","o","n">>

(***************************************************************************)
(* World Graph: Config.rooms, read from config.json.  Every connection is  *)
(* a key of the graph.  storage is a dead end; one room's key itself       *)
(* starts with the movement prefix.                                        *)
(***************************************************************************)
RoomKeys == {BunkerEntrance, Lab1, Storage, MoveBay}

rooms == [r \in RoomKeys |->
            IF r = BunkerEntrance THEN <<Lab1, Storage>>
            ELSE IF r = Lab1 THEN <<BunkerEntrance, MoveBay>>
            ELSE IF r = MoveBay THEN <<Lab1>>
            ELSE <<>>]

\* self.rooms.get(location, {}).get("connections", [])
ConnectionsOf(loc) == IF loc \in DOMAIN rooms THEN rooms[loc] ELSE <<>>

(***************************************************************************)
(* State.                                                                  *)
(***************************************************************************)
PartNames == {"power", "motor", "sensors", "control"}
Professions == {"hardware", "software", "control", "design"}

NoFlags == [k \in {} |-> ""]

\* One piece appended to State.log: the f-string's kind and its interpolated values.
LogEntry(tag, n, s, id1, id2) == [tag |-> tag, n |-> n, s |-> s, id1 |-> id1, id2 |-> id2]

InitialHp == 3
InitialDanger == 10

\* State.__init__
NewState ==
    [log |-> <<>>, turn |-> 0, chapter |-> 1, location |-> BunkerEntrance,
     profession |-> "hardware", level |-> 1, hp |-> InitialHp, knowledge_score |-> 0,
     robot_parts |-> [k \in PartNames |-> FALSE],
     flags |-> NoFlags, inventory |-> <<>>, danger_level |-> InitialDanger,
     is_game_over |-> FALSE, is_win |-> FALSE]

\* Mutant: a snapshot that leaves out the is_win key.
ToDictWithoutIsWin(s) ==
    [log |-> s.log, turn |-> s.turn, chapter |-> s.chapter, location |-> s.location,
     profession |-> s.profession, level |-> s.level, hp |-> s.hp,
     knowledge_score |-> s.knowledge_score, robot_parts |-> s.robot_parts,
     flags |-> s.flags, inventory |-> s.inventory, danger_level |-> s.danger_level,
     is_game_over |-> s.is_game_over]

\* State.to_dict: the snapshot State.save writes.
ToDict(s) ==
    [log |-> s.log, turn |-> s.turn, chapter |-> s.chapter, location |-> s.location,
     profession |-> s.profession, level |-> s.level, hp |-> s.hp,
     knowledge_score |-> s.knowledge_score, robot_parts |-> s.robot_parts,
     flags |-> s.flags, inventory |-> s.inventory, danger_level |-> s.danger_level,
     is_game_over |-> s.is_game_over, is_win |-> s.is_win]

\* State.save: save_file is always set by run_start, so the file is (over)written.
Save(fs, id, s) == [fs EXCEPT ![id] = <<ToDict(s)>>]

(***************************************************************************)
(* The generator's state_update_hint.  kind is the JSON type of the value  *)
(* ("dict", or "list" for a value that is no object).  A numeric field      *)
(* that is absent, null or 0 is 0: the code reads each as                   *)
(* int(hint.get(k) or 0), and chapter as "if chapter:".  location is <<>>  *)
(* when the key is absent and <<id>> when present.  robot_parts maps the   *)
(* keys the hint gives to the JSON value: "true", "false", or "yes" (a     *)
(* value that is no boolean).                                              *)
(***************************************************************************)
EmptyHint ==
    [kind |-> "dict", location |-> <<>>, chapter |-> 0,
     robot_parts |-> [k \in {} |-> ""], flags |-> NoFlags, inventory_add |-> <<>>,
     danger_delta |-> 0, knowledge_delta |-> 0, hp_delta |-> 0]

NonDictHint == [EmptyHint EXCEPT !.kind = "list"]

\* hint.pop("location", None)
PopLocation(hint) == [hint EXCEPT !.location = <<>>]

Max(a, b) == IF a >= b THEN a ELSE b
Min(a, b) == IF a <= b THEN a ELSE b

\* Mutant: every hint-listed item is appended.
InventoryAddAll(inv, items) == inv \o items

\* for item in inv_add: if item not in inventory: inventory.append(item)
RECURSIVE InventoryAdd(_, _)
InventoryAdd(inv, items) ==
    IF items = <<>> THEN inv
    ELSE InventoryAdd(IF InSeq(Head(items), inv) THEN inv ELSE Append(inv, Head(items)),
                      Tail(items))

LevelThresholds == {3, 6}

\* Mutant: the chapter only ratchets upward.
ChapterRatchet(chapter, hint) == IF hint.chapter > chapter THEN hint.chapter ELSE chapter

\* chapter = hint.get("chapter"); if chapter: self.state.chapter = int(chapter)
ChapterAfter(chapter, hint) == IF hint.chapter # 0 THEN hint.chapter ELSE chapter

\* Mutant: the danger level without its clamp.
DangerUnclamped(danger_level, danger_delta) == danger_level + danger_delta

\* max(0, min(100, self.state.danger_level + danger_delta))
DangerAfter(danger_level, danger_delta) == Max(0, Min(100, danger_level + danger_delta))

\* Mutant: a level is gained at or above the first threshold.
LevelAtOrAbove(level, knowledge_score) ==
    IF \E t \in LevelThresholds : knowledge_score >= t THEN level + 1 ELSE level

\* if self.state.knowledge_score in (3, 6): self.state.level += 1
LevelAfter(level, knowledge_score) ==
    IF knowledge_score \in LevelThresholds THEN level + 1 ELSE level

\* apply_state_update's head: a hint that is no dict is {}; location is popped.
HintForApply(hint0) == PopLocation(IF hint0.kind = "dict" THEN hint0 ELSE EmptyHint)

\* apply_state_update from "chapter = hint.get(...)" on; verdict is quiz_result.
ApplyFields(s, hint, verdict) ==
    LET chapter == ChapterAfter(s.chapter, hint)
        parts == [k \in DOMAIN s.robot_parts |->
                    IF k \in DOMAIN hint.robot_parts /\ hint.robot_parts[k] \in {"true", "false"}
                    THEN hint.robot_parts[k] = "true"
                    ELSE s.robot_parts[k]]
        flags == [k \in DOMAIN s.flags \cup DOMAIN hint.flags |->
                    IF k \in DOMAIN hint.flags THEN hint.flags[k] ELSE s.flags[k]]
        inventory == InventoryAdd(s.inventory, hint.inventory_add)
        danger == DangerAfter(s.danger_level, hint.danger_delta)
        knowledge == s.knowledge_score + hint.knowledge_delta
                        + (IF verdict = "correct" THEN 1 ELSE 0)
        hp == s.hp - (IF verdict = "wrong" THEN 1 ELSE 0) + hint.hp_delta
        level == LevelAfter(s.level, knowledge)
    IN  [s EXCEPT !.chapter = chapter, !.robot_parts = parts, !.flags = flags,
                  !.inventory = inventory, !.danger_level = danger,
                  !.knowledge_score = knowledge, !.hp = hp, !.level = level]

\* Mutant: an Applier that also takes the hint's location.
ApplyStateUpdateTrustingLocation(s, hint0, verdict) ==
    LET r == ApplyFields(s, HintForApply(hint0), verdict)
    IN  IF hint0.kind = "dict" /\ hint0.location # <<>>
        THEN [r EXCEPT !.location = hint0.location[1]]
        ELSE r

\* Game.apply_state_update(hint, quiz_result); verdict is "none" for None.
ApplyStateUpdate(s, hint0, verdict) == ApplyFields(s, HintForApply(hint0), verdict)

\* Mutant: any() where the code has all().
AnyPartBuilt(s) == \E k \in DOMAIN s.robot_parts : s.robot_parts[k]

\* all(self.state.robot_parts.values())
AllPartsBuilt(s) == \A k \in DOMAIN s.robot_parts : s.robot_parts[k]

\* run_loop's terminal checks after the Applier.
\* Mutant: the loss check with "hp < 0".
TerminalCheckBelowZero(s) ==
    LET w == IF AllPartsBuilt(s) THEN [s EXCEPT !.is_win = TRUE] ELSE s
    IN  IF w.hp < 0 THEN [w EXCEPT !.is_game_over = TRUE] ELSE w

TerminalCheck(s) ==
    LET w == IF AllPartsBuilt(s) THEN [s EXCEPT !.is_win = TRUE] ELSE s
    IN  IF w.hp <= 0 THEN [w EXCEPT !.is_game_over = TRUE] ELSE w

(***************************************************************************)
(* The generator's reply (the text gpt.run returns), by what json.loads    *)
(* makes of it: kind "unparsable" raises JSONDecodeError, "list" is JSON   *)
(* that is no object ([1]), "dict" is an object with the keys in keys.     *)
(* A field whose key is not in keys is never read.                         *)
(***************************************************************************)
Choice(id, text) == [id |-> id, text |-> text]

Quiz(correct) == [question |-> "q", options |-> "abcd", correct |-> correct,
                  explanation |-> "because"]

Reply(keys, mode, quiz, choices, hint) ==
    [kind |-> "dict", keys |-> keys, narration |-> "story", mode |-> mode,
     quiz |-> quiz, choices |-> choices, state_update_hint |-> hint]

Unparsable == [Reply({}, "", <<>>, <<>>, EmptyHint) EXCEPT !.kind = "unparsable"]
ListReply == [Reply({}, "", <<>>, <<>>, EmptyHint) EXCEPT !.kind = "list"]
\* What run_explore_turn / run_quiz_turn return for an unparsable reply.
None == [Reply({}, "", <<>>, <<>>, EmptyHint) EXCEPT !.kind = "none"]

HintTeleportHurt == [EmptyHint EXCEPT !.location = <<Lab3>>, !.hp_delta = -2]
HintHalfBuilt ==
    [EmptyHint EXCEPT !.robot_parts =
        [k \in {"power", "motor", "sensors"} |-> IF k = "sensors" THEN "yes" ELSE "true"]]
HintRestBuilt ==
    [EmptyHint EXCEPT !.location = <<MoveBay>>,
                      !.robot_parts = [k \in {"sensors", "control"} |-> "true"]]

Hints == {EmptyHint, HintTeleportHurt, HintHalfBuilt, HintRestBuilt}

ExploreKeys == {"narration", "mode", "choices", "state_update_hint"}
QuizKeys == {"narration", "mode", "quiz", "state_update_hint"}

Replies ==
    {Unparsable, ListReply, Reply({}, "", <<>>, <<>>, EmptyHint),
     Reply({"narration", "state_update_hint"}, "", <<>>, <<>>, NonDictHint)}
    \cup { Reply(ExploreKeys, "explore",
                 <<>>, <<Choice(Inspect, "look"), Choice(FreeAction, "other")>>, h) : h \in Hints }
    \cup { Reply(ExploreKeys, "explore",
                 <<>>, <<Choice(MovePrefix \o Lab1, "run"), Choice(Inspect, "look")>>, h) : h \in Hints }
    \cup { Reply(QuizKeys, "quiz", <<Quiz("b")>>, <<>>, h) : h \in Hints }
    \cup { Reply({"narration"}, "", <<>>, <<>>, EmptyHint) }

\* dict.get(key, default)
Get(d, key, val, default) == IF key \in d.keys THEN val ELSE default

\* Python truth of what the turn functions return: None and {} are false.
Truthy(td) == td.kind = "dict" /\ td.keys # {}

\* The choice filter of run_explore_turn.
RECURSIVE FilterMoves(_)
FilterMoves(cs) ==
    IF cs = <<>> THEN <<>>
    ELSE IF StartsWith(Head(cs).id, MovePrefix) THEN FilterMoves(Tail(cs))
    ELSE <<Head(cs)>> \o FilterMoves(Tail(cs))

\* "state_update_hint" in turn_data and isinstance(..., dict): pop("location")
StripHintLocation(td) ==
    IF "state_update_hint" \in td.keys /\ td.state_update_hint.kind = "dict"
    THEN [td EXCEPT !.state_update_hint = PopLocation(@)]
    ELSE td

\* run_explore_turn after json.loads returned a dict: the two filters.
ExploreValidated(o) ==
    StripHintLocation(
        [o EXCEPT !.keys = @ \cup {"choices"},
                  !.choices = FilterMoves(Get(o, "choices", o.choices, <<>>))])

\* Mutant: a parse error answered with an empty turn instead of None.
RunExploreTurnLenient(o) ==
    IF o.kind = "unparsable" THEN ExploreValidated(Reply({}, "", <<>>, <<>>, EmptyHint))
    ELSE ExploreValidated(o)

\* Game.run_explore_turn, from json.loads on (a reply that is JSON is a dict here).
RunExploreTurn(o) ==
    IF o.kind = "unparsable" THEN None
    ELSE ExploreValidated(o)

\* Game.run_quiz_turn, from json.loads on.
RunQuizTurn(o) ==
    IF o.kind = "unparsable" THEN None
    ELSE IF o.kind = "list" THEN o
    ELSE StripHintLocation(o)

\* run_loop: mode from the turn counter.
ModeOf(turn) == IF turn % 3 = 0 THEN "quiz" ELSE "explore"

\* run_loop's routing test: turn_data.get("mode") == "quiz" and turn_data.get("quiz")
RoutesToQuiz(td) ==
    /\ Get(td, "mode", td.mode, "") = "quiz"
    /\ Get(td, "quiz", td.quiz, <<>>) # <<>>

\* Game.get_movement_choices
RECURSIVE MovesTo(_)
MovesTo(conns) ==
    IF conns = <<>> THEN <<>>
    ELSE <<Choice(MovePrefix \o Head(conns), "go")>> \o MovesTo(Tail(conns))

GetMovementChoices(s) == MovesTo(ConnectionsOf(s.location))

\* handle_explore: choices = llm_choices + move_choices
Menu(s, td) == Get(td, "choices", td.choices, <<>>) \o GetMovementChoices(s)

\* state_hint = turn_data.get("state_update_hint") or {}
StateHint(td) == Get(td, "state_update_hint", td.state_update_hint, EmptyHint)

\* run_loop from the Applier call to the terminal checks.
FinishTurn(s, td, verdict) == TerminalCheck(ApplyStateUpdate(s, StateHint(td), verdict))

(***************************************************************************)
(* Player input.                                                           *)
(***************************************************************************)
\* str.upper on the one-letter inputs used here.
Upper(c) ==
    CASE c = "s" -> "S" [] c = "q" -> "Q" [] c = "a" -> "A" [] c = "b" -> "B"
      [] OTHER -> c

DigitValue == ("0" :> 0) @@ ("1" :> 1) @@ ("2" :> 2) @@ ("3" :> 3) @@ ("4" :> 4) @@ ("5" :> 5)

\* What the player types at handle_explore's prompt (already stripped).
MenuInputs == {"s", "Q", "x"} \cup DOMAIN DigitValue
\* What the player types at handle_quiz's prompt.
QuizInputs == {"s", "A", "b", "E"}
QuizLabels == {"A", "B", "C", "D"}
FreeTexts == {"dig"}

\* handle_explore's test of a selection: int(sel) - 1 is an index of choices.
SelectsChoice(sel, choices) ==
    /\ Upper(sel) \notin {"S", "Q"}
    /\ sel \in DOMAIN DigitValue
    /\ 0 <= DigitValue[sel] - 1
    /\ DigitValue[sel] - 1 < Len(choices)

\* Mutant: the destination is checked to be a room, not a connection of this room.
LegalRoom(loc, new_loc) == new_loc \in DOMAIN rooms

\* new_loc in room.get("connections", []) for the room of the current location
LegalConnection(loc, new_loc) == InSeq(new_loc, ConnectionsOf(loc))

\* Mutant: the movement branch without its re-check of the connection.
HandleMoveUnchecked(g, cid) ==
    LET new_loc == Remove(cid, MovePrefix)
    IN  [g EXCEPT !.state.location = new_loc,
                  !.last_action_id = cid,
                  !.last_free_text = "",
                  !.state.log = Append(@, LogEntry("Move", 0, <<>>, g.state.location, new_loc))]

\* handle_explore's movement branch (cid starts with "move_").
HandleMove(g, cid) ==
    LET new_loc == Remove(cid, MovePrefix)
    IN  IF LegalConnection(g.state.location, new_loc)
        THEN [g EXCEPT !.state.location = new_loc,
                       !.last_action_id = cid,
                       !.last_free_text = "",
                       !.state.log = Append(@, LogEntry("Move", 0, <<>>, g.state.location, new_loc))]
        ELSE [g EXCEPT !.state.log = Append(@, LogEntry("MoveFailed", 0, <<>>, cid, NoId))]

\* handle_explore from "cid = chosen['id']" on; g holds the Game fields it touches.
HandleChoice(g, chosen, free_text) ==
    IF StartsWith(chosen.id, MovePrefix) THEN HandleMove(g, chosen.id)
    ELSE IF chosen.id = FreeAction
    THEN [g EXCEPT !.last_action_id = FreeAction,
                   !.last_free_text = free_text,
                   !.state.log = Append(@, LogEntry("FreeAction", 0, <<free_text>>, NoId, NoId))]
    ELSE [g EXCEPT !.last_action_id = chosen.id,
                   !.last_free_text = "",
                   !.state.log = Append(@, LogEntry("Choice", 0, <<chosen.text>>, NoId, NoId))]

GameFields == [state |-> state, last_action_id |-> last_action_id,
               last_free_text |-> last_free_text]

QuizAnswerId == <<"q","u","i","z","_","a","n","s","w","e","r","_">>

(***************************************************************************)
(* run_loop.                                                               *)
(***************************************************************************)
startVars == <<start_type, saveid_to_exist, use_save_id>>

\* The loop's exit test finds a terminal flag set: break.
\* Mutant: only a lost game ends the loop.
IsLost(s) == s.is_game_over

\* if self.state.is_game_over or self.state.is_win: break
IsTerminal(s) == s.is_game_over \/ s.is_win

LoopBreak ==
    /\ pc = "loop"
    /\ IsTerminal(state)
    /\ pc' = "ending"
    /\ UNCHANGED <<state, files, out, turn_data, last_action_id, last_free_text,
                   summary, startVars, pre, applied, quiz_result>>

\* A turn starts: turn += 1, the prompt is built and gpt.run is called.
StartTurn ==
    /\ pc = "loop"
    /\ ~IsTerminal(state)
    /\ state.turn < MaxTurn
    /\ pre' = state
    /\ state' = [state EXCEPT !.turn = @ + 1]
    /\ pc' = "generate"
    /\ UNCHANGED <<files, out, turn_data, last_action_id, last_free_text,
                   summary, startVars, applied, quiz_result>>

TurnOf(o) == IF ModeOf(state.turn) = "quiz" THEN RunQuizTurn(o) ELSE RunExploreTurn(o)

\* The reply is JSON but no object: .get raises AttributeError, uncaught.
GeneratorCrash(o) ==
    /\ pc = "generate"
    /\ o.kind = "list"
    /\ out' = o
    /\ pc' = "crashed"
    /\ UNCHANGED <<state, files, turn_data, last_action_id, last_free_text,
                   summary, startVars, pre, applied, quiz_result>>

\* "if not turn_data": the turn function returned None (or an empty dict): break.
TurnFails(o) ==
    /\ pc = "generate"
    /\ o.kind # "list"
    /\ ~Truthy(TurnOf(o))
    /\ out' = o
    /\ turn_data' = TurnOf(o)
    /\ pc' = "ending"
    /\ UNCHANGED <<state, files, last_action_id, last_free_text,
                   summary, startVars, pre, applied, quiz_result>>

\* The turn is narrated and routed to handle_quiz or handle_explore, up to the
\* prompt; with an empty menu handle_explore returns and the turn completes.
TurnPresented(o) ==
    /\ pc = "generate"
    /\ o.kind # "list"
    /\ Truthy(TurnOf(o))
    /\ LET td == TurnOf(o)
           s1 == [state EXCEPT !.log = Append(@,
                    LogEntry("Turn", state.turn, <<Get(td, "narration", td.narration, "")>>,
                             NoId, NoId))]
       IN  /\ out' = o
           /\ turn_data' = td
           /\ quiz_result' = "none"
           /\ IF RoutesToQuiz(td)
              THEN /\ pc' = "quiz_prompt"
                   /\ state' = s1
                   /\ UNCHANGED <<files, last_action_id, last_free_text, applied>>
              ELSE IF Menu(s1, td) = <<>>
              THEN /\ last_action_id' = NoId
                   /\ last_free_text' = ""
                   /\ state' = FinishTurn(s1, td, "none")
                   /\ applied' = applied + 1
                   /\ files' = Save(files, use_save_id, state')
                   /\ pc' = "loop"
              ELSE /\ pc' = "explore_prompt"
                   /\ state' = s1
                   /\ UNCHANGED <<files, last_action_id, last_free_text, applied>>
    /\ UNCHANGED <<summary, startVars, pre>>

\* handle_explore: "S" saves and prompts again.
ExploreSave(sel) ==
    /\ pc = "explore_prompt"
    /\ Upper(sel) = "S"
    /\ files' = Save(files, use_save_id, state)
    /\ UNCHANGED <<state, pc, out, turn_data, last_action_id, last_free_text,
                   summary, startVars, pre, applied, quiz_result>>

\* handle_explore: "Q" sets is_game_over and returns; run_loop completes the turn.
ExploreQuit(sel) ==
    /\ pc = "explore_prompt"
    /\ Upper(sel) = "Q"
    /\ state' = FinishTurn([state EXCEPT !.is_game_over = TRUE], turn_data, "none")
    /\ applied' = applied + 1
    /\ files' = Save(files, use_save_id, state')
    /\ pc' = "loop"
    /\ UNCHANGED <<out, turn_data, last_action_id, last_free_text, summary, startVars,
                   pre, quiz_result>>

\* handle_explore: anything else that is no index of the menu prompts again.
ExploreInvalid(sel) ==
    /\ pc = "explore_prompt"
    /\ Upper(sel) \notin {"S", "Q"}
    /\ ~SelectsChoice(sel, Menu(state, turn_data))
    /\ UNCHANGED vars

\* handle_explore: a menu entry is chosen; run_loop completes the turn.
ExploreChoose(sel, free_text) ==
    /\ pc = "explore_prompt"
    /\ SelectsChoice(sel, Menu(state, turn_data))
    /\ LET chosen == Menu(state, turn_data)[DigitValue[sel]]
           g == HandleChoice(GameFields, chosen, free_text)
       IN  /\ last_action_id' = g.last_action_id
           /\ last_free_text' = g.last_free_text
           /\ state' = FinishTurn(g.state, turn_data, "none")
    /\ applied' = applied + 1
    /\ files' = Save(files, use_save_id, state')
    /\ pc' = "loop"
    /\ UNCHANGED <<out, turn_data, summary, startVars, pre, quiz_result>>

\* handle_quiz: "S" saves and prompts again.
QuizSave(ans) ==
    /\ pc = "quiz_prompt"
    /\ Upper(ans) = "S"
    /\ files' = Save(files, use_save_id, state)
    /\ UNCHANGED <<state, pc, out, turn_data, last_action_id, last_free_text,
                   summary, startVars, pre, applied, quiz_result>>

\* handle_quiz: an answer that is no label prompts again.
QuizInvalid(ans) ==
    /\ pc = "quiz_prompt"
    /\ Upper(ans) \notin {"S"} \cup QuizLabels
    /\ UNCHANGED vars

\* handle_quiz: a label is answered; run_loop completes the turn.
QuizAnswer(ans) ==
    /\ pc = "quiz_prompt"
    /\ Upper(ans) \in QuizLabels
    /\ LET q == turn_data.quiz[1]
           correct == Upper(q.correct)
           verdict == IF Upper(ans) = correct THEN "correct" ELSE "wrong"
           s1 == [state EXCEPT !.log = Append(@,
                    LogEntry("Quiz", 0, <<q.question, Upper(ans), correct>>, NoId, NoId))]
       IN  /\ last_action_id' = QuizAnswerId \o <<Upper(ans)>>
           /\ last_free_text' = ""
           /\ quiz_result' = verdict
           /\ state' = FinishTurn(s1, turn_data, verdict)
    /\ applied' = applied + 1
    /\ files' = Save(files, use_save_id, state')
    /\ pc' = "loop"
    /\ UNCHANGED <<out, turn_data, summary, startVars, pre>>

\* The branch of do_ending a State takes.
EndingOf(s) == IF s.is_win THEN "Ending" ELSE IF s.is_game_over THEN "Game Over" ELSE "Exit"

\* Game.do_ending; gpt_ok is whether the summary call returns or raises.
DoEnding(gpt_ok) ==
    /\ pc = "ending"
    /\ state' = [state EXCEPT !.log = Append(@, LogEntry(EndingOf(state), 0, <<>>, NoId, NoId))]
    /\ summary' = IF gpt_ok THEN "summary" ELSE "story"
    /\ pc' = "done"
    /\ UNCHANGED <<files, out, turn_data, last_action_id, last_free_text,
                   startVars, pre, applied, quiz_result>>

(***************************************************************************)
(* run_start.                                                              *)
(***************************************************************************)
\* Game.max_saves
MaxSaves == 4
\* str(i + 1) for i in range(self.max_saves)
SlotIds == { ToString(i) : i \in 1..MaxSaves }

NoFiles == [id \in SlotIds |-> <<>>]

\* A snapshot an earlier session left in a slot.
OldSnapshot ==
    ToDict([NewState EXCEPT !.log = <<LogEntry("Opening", 0, <<>>, NoId, NoId)>>,
                            !.turn = 2, !.location = Lab1, !.profession = "design"])

\* What the player types at run_start's two prompts (not stripped).
StartInputs == {"1", "2", "3", ""}
SlotInputs == SlotIds \cup {"0", "5", ""}
\* choose_profession's mapping
ProfessionOf == ("1" :> "hardware") @@ ("2" :> "software") @@ ("3" :> "control")
                @@ ("4" :> "design")
ProfessionInputs == DOMAIN ProfessionOf \cup {"5"}

\* data.get(key, default) on the dict read from the save file
DataGet(data, key, default) == IF key \in DOMAIN data THEN data[key] ELSE default

\* State.load into the State s just constructed: nothing without a file; otherwise
\* every field is read from the file, with State.__init__'s value for a missing key.
Load(fs, id, s) ==
    IF fs[id] = <<>> THEN s
    ELSE LET data == fs[id][1]
         IN  [log |-> DataGet(data, "log", <<>>),
              turn |-> DataGet(data, "turn", 0),
              chapter |-> DataGet(data, "chapter", 1),
              location |-> DataGet(data, "location", BunkerEntrance),
              profession |-> DataGet(data, "profession", "hardware"),
              level |-> DataGet(data, "level", 1),
              hp |-> DataGet(data, "hp", InitialHp),
              knowledge_score |-> DataGet(data, "knowledge_score", 0),
              robot_parts |-> DataGet(data, "robot_parts", [k \in PartNames |-> FALSE]),
              flags |-> DataGet(data, "flags", NoFlags),
              inventory |-> DataGet(data, "inventory", <<>>),
              danger_level |-> DataGet(data, "danger_level", InitialDanger),
              is_game_over |-> DataGet(data, "is_game_over", FALSE),
              is_win |-> DataGet(data, "is_win", FALSE)]

\* Mutant: "load" accepts every slot id, as "new" does.
SlotAcceptedAnyId(stype, exist, text_in) == text_in \in DOMAIN exist

\* run_start's acceptance test of a slot input.
SlotAccepted(stype, exist, text_in) ==
    IF stype = "new" THEN text_in \in DOMAIN exist
    ELSE text_in \in DOMAIN exist /\ exist[text_in]

\* The State a new game enters run_loop with: profession chosen, opening logged.
OpenedState(profession) ==
    [NewState EXCEPT !.profession = profession,
                     !.log = <<LogEntry("Opening", 0, <<>>, NoId, NoId)>>]

loopVars == <<out, turn_data, last_action_id, last_free_text, summary, quiz_result,
              pre, applied>>

\* The first prompt, answered "1" or "2"; then the slots are scanned.
StartPrompt(text_in) ==
    /\ pc = "start_prompt"
    /\ text_in \in {"1", "2"}
    /\ start_type' = IF text_in = "1" THEN "new" ELSE "load"
    /\ saveid_to_exist' = [id \in SlotIds |-> files[id] # <<>>]
    /\ pc' = "slot_prompt"
    /\ UNCHANGED <<state, files, use_save_id, loopVars>>

\* The first prompt, answered anything else: asked again.
StartReprompt(text_in) ==
    /\ pc = "start_prompt"
    /\ text_in \notin {"1", "2"}
    /\ UNCHANGED vars

\* The slot prompt, answered with a slot that is accepted.
SlotPrompt(text_in) ==
    /\ pc = "slot_prompt"
    /\ SlotAccepted(start_type, saveid_to_exist, text_in)
    /\ use_save_id' = text_in
    /\ IF start_type = "new"
       THEN /\ state' = NewState
            /\ pc' = "profession_prompt"
       ELSE /\ state' = Load(files, text_in, NewState)
            /\ pc' = "loop"
    /\ UNCHANGED <<files, start_type, saveid_to_exist, loopVars>>

\* The slot prompt, answered with anything that is not accepted: asked again.
SlotReprompt(text_in) ==
    /\ pc = "slot_prompt"
    /\ ~SlotAccepted(start_type, saveid_to_exist, text_in)
    /\ UNCHANGED vars

\* choose_profession, then the opening is logged and the State saved.
ChooseProfession(ans) ==
    /\ pc = "profession_prompt"
    /\ ans \in DOMAIN ProfessionOf
    /\ state' = OpenedState(ProfessionOf[ans])
    /\ files' = Save(files, use_save_id, state')
    /\ pc' = "loop"
    /\ UNCHANGED <<startVars, loopVars>>

\* choose_profession asks again.
ProfessionReprompt(ans) ==
    /\ pc = "profession_prompt"
    /\ ans \notin DOMAIN ProfessionOf
    /\ UNCHANGED vars

(***************************************************************************)
(* Specifications.                                                         *)
(***************************************************************************)
LoopVarsInit ==
    /\ out = None
    /\ turn_data = None
    /\ last_action_id = NoId
    /\ last_free_text = ""
    /\ summary = ""
    /\ quiz_result = "none"
    /\ applied = 0

\* The professions run_loop is followed with (it never reads the field).
LoopProfessions == {"hardware", "design"}

\* A new game in slot 1 (empty before), at the call of run_loop.
Init ==
    /\ \E p \in LoopProfessions : state = OpenedState(p)
    /\ files = Save(NoFiles, "1", state)
    /\ start_type = "new"
    /\ saveid_to_exist = [id \in SlotIds |-> FALSE]
    /\ use_save_id = "1"
    /\ pc = "loop"
    /\ pre = state
    /\ LoopVarsInit

Next ==
    \/ LoopBreak
    \/ StartTurn
    \/ \E o \in Replies : GeneratorCrash(o)
    \/ \E o \in Replies : TurnFails(o)
    \/ \E o \in Replies : TurnPresented(o)
    \/ \E sel \in MenuInputs : ExploreSave(sel)
    \/ \E sel \in MenuInputs : ExploreQuit(sel)
    \/ \E sel \in MenuInputs : ExploreInvalid(sel)
    \/ \E sel \in MenuInputs, t \in FreeTexts : ExploreChoose(sel, t)
    \/ \E ans \in QuizInputs : QuizSave(ans)
    \/ \E ans \in QuizInputs : QuizInvalid(ans)
    \/ \E ans \in QuizInputs : QuizAnswer(ans)
    \/ \E ok \in BOOLEAN : DoEnding(ok)

Spec == Init /\ [][Next]_vars

(***************************************************************************)
(* run_loop entered through run_start's "load" branch: the State is read   *)
(* from the snapshot an earlier session left in slot 1, in the middle of a *)
(* game or after it was won, lost or quit.                                 *)
(***************************************************************************)
MidGameState ==
    [OpenedState("design") EXCEPT
        !.turn = 1, !.location = Lab1, !.hp = 1,
        !.robot_parts = [k \in PartNames |-> k \in {"power", "motor"}]]

ResumeStates ==
    {MidGameState,
     [MidGameState EXCEPT !.is_game_over = TRUE],
     [MidGameState EXCEPT !.hp = 0, !.is_game_over = TRUE],
     [MidGameState EXCEPT !.robot_parts = [k \in PartNames |-> TRUE], !.is_win = TRUE],
     [MidGameState EXCEPT !.robot_parts = [k \in PartNames |-> TRUE], !.is_win = TRUE,
                          !.is_game_over = TRUE]}

InitResume ==
    /\ \E s \in ResumeStates : files = Save(NoFiles, "1", s)
    /\ state = Load(files, "1", NewState)
    /\ start_type = "load"
    /\ saveid_to_exist = [id \in SlotIds |-> files[id] # <<>>]
    /\ use_save_id = "1"
    /\ pc = "loop"
    /\ pre = state
    /\ LoopVarsInit

SpecResume == InitResume /\ [][Next]_vars

\* Game.run_start from its first prompt, for every set of slots that hold a save.
InitStart ==
    /\ files \in [SlotIds -> {<<>>, <<OldSnapshot>>}]
    /\ state = NewState
    /\ start_type = ""
    /\ saveid_to_exist = [id \in {} |-> FALSE]
    /\ use_save_id = ""
    /\ pc = "start_prompt"
    /\ pre = state
    /\ LoopVarsInit

NextStart ==
    \/ \E t \in StartInputs : StartPrompt(t)
    \/ \E t \in StartInputs : StartReprompt(t)
    \/ \E t \in SlotInputs : SlotPrompt(t)
    \/ \E t \in SlotInputs : SlotReprompt(t)
    \/ \E a \in ProfessionInputs : ChooseProfession(a)
    \/ \E a \in ProfessionInputs : ProfessionReprompt(a)

SpecStart == InitStart /\ [][NextStart]_vars

(***************************************************************************)
(* The State Update Applier alone: apply_state_update called on hints that *)
(* have not passed run_explore_turn / run_quiz_turn, from the States a     *)
(* session can be in.                                                      *)
(***************************************************************************)
ApplierHints ==
    Hints \cup
    {NonDictHint,
     [NonDictHint EXCEPT !.location = <<Lab3>>],
     [EmptyHint EXCEPT !.location = <<Storage>>, !.chapter = 2],
     [EmptyHint EXCEPT !.knowledge_delta = 1, !.danger_delta = 200],
     [EmptyHint EXCEPT !.knowledge_delta = 2, !.danger_delta = -200],
     [EmptyHint EXCEPT !.inventory_add = <<"key", "rope", "key">>,
                       !.flags = [k \in {"door"} |-> "open"]],
     [EmptyHint EXCEPT !.chapter = -1, !.inventory_add = <<"rope", "map">>,
                       !.danger_delta = 45]}

Verdicts == {"none", "correct", "wrong"}

InitApplier ==
    /\ \E l \in RoomKeys, h \in {1, InitialHp} :
            state = [OpenedState("hardware") EXCEPT !.location = l, !.hp = h, !.turn = 1]
    /\ files = NoFiles
    /\ start_type = "new"
    /\ saveid_to_exist = [id \in SlotIds |-> FALSE]
    /\ use_save_id = "1"
    /\ pc = "applier"
    /\ pre = state
    /\ LoopVarsInit

\* One call apply_state_update(hint, verdict).
ApplierCall(hint, verdict) ==
    /\ pc = "applier"
    /\ applied < MaxCalls
    /\ pre' = state
    /\ out' = Reply({"state_update_hint"}, "", <<>>, <<>>, hint)
    /\ quiz_result' = verdict
    /\ state' = ApplyStateUpdate(state, hint, verdict)
    /\ applied' = applied + 1
    /\ UNCHANGED <<files, pc, turn_data, last_action_id, last_free_text, summary, startVars>>

NextApplier == \E h \in ApplierHints, v \in Verdicts : ApplierCall(h, v)

SpecApplier == InitApplier /\ [][NextApplier]_vars

(***************************************************************************)
(* State.save followed by State.load into a fresh State, from Session      *)
(* States whose fields take values away from State.__init__'s as well as   *)
(* those values themselves.                                                *)
(***************************************************************************)
RoundTripStates ==
    [log : {<<>>, <<LogEntry("Opening", 0, <<>>, NoId, NoId),
                    LogEntry("Ending", 0, <<>>, NoId, NoId)>>},
     turn : {0, MaxTurn},
     chapter : {1, 2},
     location : {BunkerEntrance, Lab1},
     profession : {"hardware", "design"},
     level : {1, 2},
     hp : {0, InitialHp},
     knowledge_score : {0, 3},
     robot_parts : {[k \in PartNames |-> FALSE], [k \in PartNames |-> k = "motor"]},
     flags : {NoFlags, [k \in {"door"} |-> "open"]},
     inventory : {<<>>, <<"key", "rope">>},
     danger_level : {InitialDanger, 100},
     is_game_over : BOOLEAN,
     is_win : BOOLEAN]

InitRoundTrip ==
    /\ state \in RoundTripStates
    /\ files \in {NoFiles, [NoFiles EXCEPT !["1"] = <<OldSnapshot>>]}
    /\ start_type = "load"
    /\ saveid_to_exist = [id \in SlotIds |-> files[id] # <<>>]
    /\ use_save_id = "1"
    /\ pc = "rt_save"
    /\ pre = state
    /\ LoopVarsInit

\* state.save(); then a fresh State(save_file) is constructed.
RoundTripSave ==
    /\ pc = "rt_save"
    /\ files' = Save(files, use_save_id, state)
    /\ pre' = state
    /\ state' = NewState
    /\ pc' = "rt_load"
    /\ UNCHANGED <<out, turn_data, last_action_id, last_free_text, summary, quiz_result,
                   applied, startVars>>

\* fresh.load()
RoundTripLoad ==
    /\ pc = "rt_load"
    /\ state' = Load(files, use_save_id, state)
    /\ pc' = "rt_done"
    /\ UNCHANGED <<files, loopVars, startVars>>

NextRoundTrip == RoundTripSave \/ RoundTripLoad

SpecRoundTrip == InitRoundTrip /\ [][NextRoundTrip]_vars

(***************************************************************************)
(* Claims.                                                                 *)
(***************************************************************************)
HasMoveId(cs) == \E i \in 1..Len(cs) : StartsWith(cs[i].id, MovePrefix)

\* C1: over any turn the location after the turn is the location before it or one
\* of its connections, whatever the reply holds; and location changes only in the
\* step that commits a chosen movement entry of handle_explore's menu.
C1_NoTeleportation ==
    /\ [](state.location = pre.location \/ InSeq(state.location, ConnectionsOf(pre.location)))
    /\ [][state'.location # state.location =>
            /\ pc = "explore_prompt"
            /\ last_action_id' = MovePrefix \o state'.location
            /\ InSeq(state'.location, ConnectionsOf(state.location))]_vars

\* C1 witness: the player has moved in a turn whose reply carried a location hint
\* and a move_ choice of its own.
C1_Witness ==
    /\ pc = "loop"
    /\ state.location # pre.location
    /\ out.kind = "dict"
    /\ out.state_update_hint.location # <<>>
    /\ HasMoveId(out.choices)

\* C2: at handle_explore's prompt, on every turn, the generator's part of the menu
\* (llm_choices) holds no choice whose id starts with move_.
C2_NoGeneratorMoves ==
    pc = "explore_prompt" => ~HasMoveId(Get(turn_data, "choices", turn_data.choices, <<>>))

\* C3: handle_quiz runs only on turns whose counter is a multiple of 3.
C3_QuizOnlyEveryThirdTurn == pc = "quiz_prompt" => state.turn % 3 = 0

\* C4: is_game_over and is_win are never both true.
C4_TerminalFlagsExclusive == ~(state.is_game_over /\ state.is_win)

\* C5: the turn in which the player selects Quit ends with is_win and is_game_over
\* both false (so that do_ending takes its exit branch).
C5_QuitIsNeitherWinNorLoss ==
    [][(\E sel \in MenuInputs : ExploreQuit(sel)) =>
            (~state'.is_win /\ ~state'.is_game_over /\ EndingOf(state') = "Exit")]_vars

\* C6: in a session started new, is_win implies that all four build-progress flags
\* are true.
C6_WinImpliesAllParts == state.is_win => \A k \in PartNames : state.robot_parts[k]

\* C6 witness: a session that ended won.
C6_Witness == state.is_win /\ pc = "done"

\* C7: a call of the State Update Applier, for any hint and verdict, leaves the
\* location as it was before the call.
C7_ApplierKeepsLocation == applied > 0 => state.location = pre.location

\* C7 witness: the Applier was called with a dict hint that carries a location
\* other than the current one, and with a quiz verdict.
C7_Witness ==
    /\ pc = "applier"
    /\ applied > 0
    /\ out.state_update_hint.kind = "dict"
    /\ out.state_update_hint.location # <<>>
    /\ out.state_update_hint.location[1] # pre.location
    /\ quiz_result = "wrong"

\* C8: the current location is a key of the World Graph, in every state of a
\* session that starts at a location of the graph.
C8_LocationIsRoom == state.location \in DOMAIN rooms

\* C8 witness: two turns in, after two Applier calls, the player stands in a
\* room other than the starting one.
C8_Witness ==
    /\ pc = "loop"
    /\ applied >= 2
    /\ state.location = Lab1

\* The slot run_start has accepted, if any.
SlotChosen == use_save_id # ""

\* C9 as stated: "new" is only ever accepted on an empty slot, "load" on an occupied one.
C9_NewEmptyLoadOccupied ==
    /\ (SlotChosen /\ start_type = "new" /\ pc = "profession_prompt") => files[use_save_id] = <<>>
    /\ (SlotChosen /\ start_type = "load") => files[use_save_id] # <<>>

\* C9 amended: "new" accepts any of the max_saves slot ids, empty or occupied; "load"
\* accepts only an occupied slot; no slot is accepted while the prompt is repeated.
C9_NewAnyLoadOccupied ==
    /\ pc \in {"start_prompt", "slot_prompt"} => ~SlotChosen
    /\ SlotChosen => use_save_id \in SlotIds
    /\ (SlotChosen /\ start_type = "load") =>
            (saveid_to_exist[use_save_id] /\ files[use_save_id] # <<>>)

\* C9 witness: "new" was accepted on a slot that holds a save, and "load" could
\* have been accepted on it too.
C9_Witness ==
    /\ pc = "profession_prompt"
    /\ start_type = "new"
    /\ files[use_save_id] = <<OldSnapshot>>
    /\ SlotAccepted("load", saveid_to_exist, use_save_id)

\* C10: after a reply that cannot be parsed the loop has stopped (no retry, no
\* further turn) and control is in do_ending; the Applier was not called in that
\* turn; neither terminal flag is set; at the entry of do_ending every State
\* field but the turn counter has its pre-turn value, and do_ending takes the
\* exit branch.
C10_ParseFailureIsFatal ==
    out.kind = "unparsable" =>
        /\ pc \in {"ending", "done"}
        /\ ~state.is_win /\ ~state.is_game_over
        /\ applied = pre.turn
        /\ state.turn = pre.turn + 1
        /\ pc = "ending" => state = [pre EXCEPT !.turn = @ + 1]
        /\ pc = "done" =>
                state = [pre EXCEPT !.turn = @ + 1,
                                    !.log = Append(@, LogEntry("Exit", 0, <<>>, NoId, NoId))]

\* C10 witness: a session ended by an unparsable reply in its second turn or later,
\* after a turn that changed the State.
C10_Witness ==
    /\ out.kind = "unparsable"
    /\ pc = "done"
    /\ state.turn >= 2
    /\ state.hp < InitialHp

\* C11: once do_ending has run, the snapshot in the session's save file equals the
\* live State, turn counter and log included.
C11_SnapshotCurrentAtEnd == pc = "done" => files[use_save_id] = <<ToDict(state)>>

\* C12: a save from the explore menu or the quiz prompt writes the State as it
\* was at the end of the previous turn, turn counter and log included.
C12_MidTurnSaveIsPreTurn ==
    [][((\E sel \in MenuInputs : ExploreSave(sel)) \/ (\E ans \in QuizInputs : QuizSave(ans)))
            => files'[use_save_id] = <<ToDict(pre)>>]_vars

\* C13: State.save followed by State.load into a fresh State gives a State equal
\* to the saved one in every field.
C13_SaveLoadRoundTrip ==
    pc = "rt_done" =>
        /\ state = pre
        /\ \A f \in DOMAIN pre : f \in DOMAIN state /\ state[f] = pre[f]

C13_Witness ==
    /\ pc = "rt_done"
    /\ state = pre
    /\ state.is_win /\ state.is_game_over
    /\ state.log # <<>> /\ state.turn > 0 /\ state.inventory # <<>>
    /\ state.flags # NoFlags /\ state.robot_parts["motor"]

\* C14: at the end of every completed turn hit points <= 0 implies is_game_over;
\* a wrong quiz answer at 1 hit point with no hp_delta in the hint ends the turn
\* at 0 hit points with is_game_over set; and from there no further turn starts.
C14_NoHpMeansGameOver ==
    /\ [](pc = "loop" => (state.hp <= 0 => state.is_game_over))
    /\ [](pc = "loop" /\ applied > 0 /\ quiz_result = "wrong" /\ pre.hp = 1
            /\ HintForApply(StateHint(turn_data)).hp_delta = 0
          => state.hp = 0 /\ state.is_game_over)
    /\ [][(pc = "loop" /\ state.hp <= 0) => (pc' = "ending" /\ state'.turn = state.turn)]_vars
    /\ [][(pc \in {"ending", "done"}) => (state'.turn = state.turn)]_vars

C14_Witness ==
    /\ pc = "ending"
    /\ quiz_result = "wrong" /\ pre.hp = 1
    /\ HintForApply(StateHint(turn_data)).hp_delta = 0
    /\ state.hp = 0 /\ state.is_game_over
    /\ state.turn = pre.turn + 1

\* The hint of the last Applier call, as apply_state_update reads it.
LastHint == HintForApply(out.state_update_hint)

\* C15 as stated: the chapter is at least 1 in every reachable state and no
\* Applier call lowers it.
C15_ChapterOnlyIncreases ==
    /\ state.chapter >= 1
    /\ applied > 0 => state.chapter >= pre.chapter

\* C15 amended: after an Applier call the chapter is the hint's chapter when the
\* hint is a dict that gives a non-zero one, whatever its size or sign, and the
\* chapter before the call otherwise.
C15_ChapterIsOverwritten ==
    applied > 0 =>
        state.chapter = (IF LastHint.chapter # 0 THEN LastHint.chapter ELSE pre.chapter)

C15_Witness ==
    /\ applied > 0
    /\ pre.chapter > 1
    /\ LastHint.chapter # 0
    /\ state.chapter < pre.chapter
    /\ state.chapter < 1

\* C16: after every Applier call the danger level is the level before the call
\* plus the hint's delta, clamped into 0..100; so it is within 0..100 for every
\* delta and every sequence of calls.
C16_DangerClamped ==
    /\ state.danger_level \in 0..100
    /\ applied > 0 =>
        LET raw == pre.danger_level + LastHint.danger_delta
        IN  state.danger_level = (IF raw < 0 THEN 0 ELSE IF raw > 100 THEN 100 ELSE raw)

C16_Witness ==
    /\ applied > 0
    /\ pre.danger_level = 100
    /\ LastHint.danger_delta < -100
    /\ state.danger_level = 0

\* C17: after every Applier call the inventory has no duplicates, begins with the
\* inventory before the call, and continues with the hint's items that were not
\* in it, each once, in the order of their first listing.
C17_InventoryAppendsNewOnce ==
    LET inv == state.inventory
        old == pre.inventory
        items == LastHint.inventory_add
        keep == {i \in 1..Len(items) :
                    /\ ~InSeq(items[i], old)
                    /\ \A j \in 1..(i - 1) : items[j] # items[i]}
    IN  /\ \A i, j \in 1..Len(inv) : inv[i] = inv[j] => i = j
        /\ applied > 0 =>
            /\ Len(inv) = Len(old) + Cardinality(keep)
            /\ \A i \in 1..Len(old) : inv[i] = old[i]
            /\ \A i \in keep : inv[Len(old) + Cardinality({j \in keep : j < i}) + 1] = items[i]

C17_Witness ==
    /\ applied > 0
    /\ pre.inventory = <<"key", "rope">>
    /\ LastHint.inventory_add = <<"rope", "map">>
    /\ state.inventory = <<"key", "rope", "map">>

\* C18: an Applier call leaves the knowledge score at its old value plus the
\* hint's delta plus 1 for a correct verdict, and raises the level by exactly one
\* when that score is 3 or 6 and not at all otherwise: 2 -> 3 by a +1 hint raises
\* level 1 to 2, 2 -> 4 by a +2 hint leaves the level.
C18_LevelUpAtThresholdEquality ==
    applied > 0 =>
        /\ state.knowledge_score = pre.knowledge_score + LastHint.knowledge_delta
                                    + (IF quiz_result = "correct" THEN 1 ELSE 0)
        /\ state.knowledge_score \in {3, 6} => state.level = pre.level + 1
        /\ state.knowledge_score \notin {3, 6} => state.level = pre.level
        /\ (pre.knowledge_score = 2 /\ pre.level = 1 /\ LastHint.knowledge_delta = 1
                /\ quiz_result # "correct") => state.level = 2
        /\ (pre.knowledge_score = 2 /\ LastHint.knowledge_delta = 2
                /\ quiz_result # "correct") => state.level = pre.level

\* C18 witness: Scenario A.
C18_Witness ==
    /\ applied > 0
    /\ pre.knowledge_score = 2 /\ pre.level = 1
    /\ LastHint.knowledge_delta = 1 /\ quiz_result # "correct"
    /\ state.knowledge_score = 3 /\ state.level = 2

\* C19: the level is at least 1 and an Applier call that leaves the knowledge
\* score unchanged leaves the level unchanged.
C19_LevelFollowsKnowledgeScore ==
    /\ state.level >= 1
    /\ (applied > 0 /\ state.knowledge_score = pre.knowledge_score) => state.level = pre.level

\* C20: handle_explore's re-check of a selected movement never fails: no
\* "move failed" entry is ever written to the log.
C20_MoveNeverFails == \A i \in 1..Len(state.log) : state.log[i].tag # "MoveFailed"

\* The entries do_ending has written to the log.
EndingEntries == {i \in 1..Len(state.log) : state.log[i].tag \in {"Ending", "Game Over", "Exit"}}

\* C21: when is_game_over or is_win is true at the top of the loop, whether set
\* in an earlier turn or read from the loaded snapshot, the only step is the one
\* to end-of-session handling: no field of the State changes (the turn counter
\* included), the generator and the Applier are not called; do_ending then runs
\* once, after which nothing happens.
C21_TerminalStatesAbsorbing ==
    /\ [](pc = "loop" /\ (state.is_game_over \/ state.is_win) => ENABLED LoopBreak)
    /\ [][(pc = "loop" /\ (state.is_game_over \/ state.is_win))
            => (pc' = "ending" /\ state' = state /\ applied' = applied /\ out' = out
                /\ turn_data' = turn_data /\ files' = files)]_vars
    /\ [][(pc = "ending")
            => (pc' = "done" /\ state'.turn = state.turn /\ applied' = applied /\ out' = out)]_vars
    /\ [][pc # "done"]_vars
    /\ [](Cardinality(EndingEntries) = (IF pc = "done" THEN 1 ELSE 0))

\* C21 witness: a game loaded already won has been through do_ending, with no
\* turn started, no generator reply and no Applier call.
C21_Witness ==
    /\ pc = "done"
    /\ start_type = "load"
    /\ state.is_win
    /\ applied = 0 /\ out = None
    /\ state.turn = files[use_save_id][1].turn
    /\ Cardinality(EndingEntries) = 1

====
